---- MODULE Spec2Model ----
(***************************************************************************)
(* Model of csvtojson.py: main() and convert_csv_to_json(), the converter  *)
(* of a CSV file of exchange rates into a JSON document.                   *)
(*                                                                         *)
(* Strings are sequences of one-character strings, so that the library     *)
(* conversions the program relies on (csv.reader, datetime.strptime,       *)
(* datetime.strftime, float) are computed character by character.          *)
(***************************************************************************)
EXTENDS Integers, Sequences, FiniteSets, TLC

\* ------------------------------------------------------------------ bounds
\* Largest number of data rows (lines after the header) in an input file.
MaxRows == 2
\* Largest number of command-line arguments after the script name.
MaxArgs == 3

\* ------------------------------------------------------- program constants
\* len(sys.argv) that main() requires: script name plus two arguments.
ArgvLen == 3
\* Minimum number of columns of a processed row.
MinCols == 3
\* datetime.MINYEAR
MinYear == 1
\* Width of %m and %d in strftime, and of %Y in strptime.
TwoDigits == 2
YearDigits == 4

\* ------------------------------------------------------------- input lines
\* "Date,Currency,Rate"
HeaderLine ==
    <<"D","a","t","e",",","C","u","r","r","e","n","c","y",",","R","a","t","e">>
\* "01/15/2023,USD,1.5"
L1 ==
    <<"0","1","/","1","5","/","2","0","2","3",",","U","S","D",",","1",".","5">>
\* "3/4/2023,EUR,bad"
L2 ==
    <<"3","/","4","/","2","0","2","3",",","E","U","R",",","b","a","d">>
\* "2023-03-04,GBP,-2"
L3 ==
    <<"2","0","2","3","-","0","3","-","0","4",",","G","B","P",",","-","2">>
\* "02/29/2023,JPY, .5 "
L4 ==
    <<"0","2","/","2","9","/","2","0","2","3",",","J","P","Y",","," ",".","5"," ">>
\* "01/17/2023,GBP"
L5 ==
    <<"0","1","/","1","7","/","2","0","2","3",",","G","B","P">>
\* "" (a blank line)
L6 ==
    <<>>
\* "01/18/2023,CAD,7,x"
L7 ==
    <<"0","1","/","1","8","/","2","0","2","3",",","C","A","D",",","7",",","x">>
\* "1/ 5/0999,CHF,NaN"
L8 ==
    <<"1","/"," ","5","/","0","9","9","9",",","C","H","F",",","N","a","N">>
\* "02/29/2024,,inf"
L9 ==
    <<"0","2","/","2","9","/","2","0","2","4",",",",","i","n","f">>
\* "12/31/2022,USD,N/A"
OldLine ==
    <<"1","2","/","3","1","/","2","0","2","2",",","U","S","D",",","N","/","A">>

\* The data lines an input file is made of.
RowPool == {L1, L2, L3, L4, L5, L6, L7, L8, L9}

\* --------------------------------------------------------- text primitives
Digits == <<"0","1","2","3","4","5","6","7","8","9">>

IsDigit(c) == \E i \in 1..Len(Digits) : Digits[i] = c

DigitVal(c) == (CHOOSE i \in 1..Len(Digits) : Digits[i] = c) - 1

AllDigits(s) == \A i \in 1..Len(s) : IsDigit(s[i])

\* int() of a digit string
RECURSIVE NumVal(_)
NumVal(s) ==
    IF Len(s) = 0 THEN 0
    ELSE NumVal(SubSeq(s, 1, Len(s) - 1)) * 10 + DigitVal(s[Len(s)])

\* str() of a natural number
RECURSIVE NumStr(_)
NumStr(n) ==
    IF n < 10 THEN <<Digits[n + 1]>>
    ELSE NumStr(n \div 10) \o <<Digits[(n % 10) + 1]>>

\* "%0<w>d"
RECURSIVE ZeroPad(_, _)
ZeroPad(s, w) == IF Len(s) >= w THEN s ELSE ZeroPad(<<"0">> \o s, w)

\* str.split(sep)
RECURSIVE Split(_, _)
Split(s, sep) ==
    IF \A i \in 1..Len(s) : s[i] # sep THEN <<s>>
    ELSE LET k == CHOOSE i \in 1..Len(s) :
                      s[i] = sep /\ \A j \in 1..(i - 1) : s[j] # sep
         IN  <<SubSeq(s, 1, k - 1)>> \o Split(SubSeq(s, k + 1, Len(s)), sep)

\* One row of csv.reader: a blank line is the empty list, any other line is
\* split on the delimiter (the input lines carry no quote character).
CsvRow(line) == IF Len(line) = 0 THEN <<>> ELSE Split(line, ",")

\* ------------------------------------------------------------------- dates
IsLeap(y) == (y % 4 = 0 /\ y % 100 # 0) \/ y % 400 = 0

DaysInMonth(y, m) ==
    IF m = 2 THEN (IF IsLeap(y) THEN 29 ELSE 28)
    ELSE IF m \in {4, 6, 9, 11} THEN 30 ELSE 31

\* %m : 1[0-2]|0[1-9]|[1-9]
MonthField(p) ==
    /\ AllDigits(p)
    /\ Len(p) \in 1..TwoDigits
    /\ NumVal(p) \in 1..12

\* %d : 3[01]|[12]\d|0[1-9]|[1-9]| [1-9]
DayField(p) ==
    \/ /\ AllDigits(p)
       /\ Len(p) \in 1..TwoDigits
       /\ NumVal(p) \in 1..31
    \/ /\ Len(p) = TwoDigits
       /\ p[1] = " "
       /\ IsDigit(p[2])
       /\ DigitVal(p[2]) >= 1

DayVal(p) == IF p[1] = " " THEN DigitVal(p[2]) ELSE NumVal(p)

\* %Y : \d\d\d\d
YearField(p) == AllDigits(p) /\ Len(p) = YearDigits

NoDate == [ok |-> FALSE, year |-> 0, month |-> 0, day |-> 0]

\* datetime.strptime(date_str, '%m/%d/%Y'); ok = FALSE stands for ValueError
Strptime(date_str) ==
    LET parts == Split(date_str, "/")
    IN  IF Len(parts) # 3 THEN NoDate
        ELSE IF ~(MonthField(parts[1]) /\ DayField(parts[2]) /\ YearField(parts[3]))
        THEN NoDate
        ELSE LET y == NumVal(parts[3])
                 m == NumVal(parts[1])
                 d == DayVal(parts[2])
             IN  IF y < MinYear \/ d > DaysInMonth(y, m) THEN NoDate
                 ELSE [ok |-> TRUE, year |-> y, month |-> m, day |-> d]

\* A formatter that writes the day before the month.
StrftimeDayFirst(date_obj, pad) ==
    ZeroPad(NumStr(date_obj.year), IF pad THEN YearDigits ELSE 1)
        \o <<"-">> \o ZeroPad(NumStr(date_obj.day), TwoDigits)
        \o <<"-">> \o ZeroPad(NumStr(date_obj.month), TwoDigits)

\* date_obj.strftime('%Y-%m-%d'); pad says whether the platform's %Y pads the
\* year to four digits (the C library decides for years below 1000).
Strftime(date_obj, pad) ==
    ZeroPad(NumStr(date_obj.year), IF pad THEN YearDigits ELSE 1)
        \o <<"-">> \o ZeroPad(NumStr(date_obj.month), TwoDigits)
        \o <<"-">> \o ZeroPad(NumStr(date_obj.day), TwoDigits)

\* The inner try/except around the date: iso_date
ConvertDate(date_str, pad) ==
    LET date_obj == Strptime(date_str)
    IN  IF date_obj.ok THEN Strftime(date_obj, pad) ELSE date_str

\* ------------------------------------------------------------------- rates
IsSpace(c) == c = " "

\* str.strip()
RECURSIVE Strip(_)
Strip(s) ==
    IF Len(s) = 0 THEN s
    ELSE IF IsSpace(s[1]) THEN Strip(SubSeq(s, 2, Len(s)))
    ELSE IF IsSpace(s[Len(s)]) THEN Strip(SubSeq(s, 1, Len(s) - 1))
    ELSE s

\* str.lower() on the letters of the special values
Lower(c) ==
    CASE c = "N" -> "n"
      [] c = "A" -> "a"
      [] c = "I" -> "i"
      [] c = "F" -> "f"
      [] c = "T" -> "t"
      [] c = "Y" -> "y"
      [] OTHER   -> c

LowerStr(s) == [i \in 1..Len(s) |-> Lower(s[i])]

NoFloat == [ok |-> FALSE, kind |-> "none", neg |-> FALSE, whole |-> 0, frac |-> <<>>]

\* Fraction digits without the trailing zeros, which do not change the value.
RECURSIVE TrimZeros(_)
TrimZeros(s) ==
    IF Len(s) > 0 /\ s[Len(s)] = "0" THEN TrimZeros(SubSeq(s, 1, Len(s) - 1))
    ELSE s

\* The unsigned part of a float literal: nan, inf, infinity, or decimal digits
\* with at most one point and at least one digit.  The value is whole.frac.
FloatBody(b, neg) ==
    LET parts == Split(b, ".")
    IN  IF LowerStr(b) = <<"n","a","n">>
        THEN [ok |-> TRUE, kind |-> "nan", neg |-> neg, whole |-> 0, frac |-> <<>>]
        ELSE IF LowerStr(b) \in {<<"i","n","f">>,
                                 <<"i","n","f","i","n","i","t","y">>}
        THEN [ok |-> TRUE, kind |-> "inf", neg |-> neg, whole |-> 0, frac |-> <<>>]
        ELSE IF Len(parts) > 2 \/ \E i \in 1..Len(parts) : ~AllDigits(parts[i])
        THEN NoFloat
        ELSE LET ip == parts[1]
                 fp == IF Len(parts) = 2 THEN parts[2] ELSE <<>>
             IN  IF Len(ip) + Len(fp) = 0 THEN NoFloat
                 ELSE [ok |-> TRUE, kind |-> "finite", neg |-> neg,
                       whole |-> NumVal(ip), frac |-> TrimZeros(fp)]

\* float(rate); ok = FALSE stands for ValueError
ParseFloat(rate) ==
    LET s == Strip(rate)
    IN  IF Len(s) = 0 THEN NoFloat
        ELSE IF s[1] \in {"+", "-"}
        THEN FloatBody(SubSeq(s, 2, Len(s)), s[1] = "-")
        ELSE FloatBody(s, FALSE)

\* A rate as stored in an entry: the float when it parses, else the string.
NumRate(f) == [tag |-> "num", num |-> f, str |-> <<>>]
StrRate(rate) == [tag |-> "str", num |-> NoFloat, str |-> rate]

\* A rate conversion that keeps the string without printing the warning.
ConvertRateSilent(rate) ==
    LET f == ParseFloat(rate)
    IN  IF f.ok THEN [rate_float |-> NumRate(f), warn |-> FALSE]
        ELSE [rate_float |-> StrRate(rate), warn |-> FALSE]

\* The inner try/except around the rate: rate_float, and whether the
\* warning line is printed.
ConvertRate(rate) ==
    LET f == ParseFloat(rate)
    IN  IF f.ok THEN [rate_float |-> NumRate(f), warn |-> FALSE]
        ELSE [rate_float |-> StrRate(rate), warn |-> TRUE]

\* ------------------------------------------------------------ files, lines
Paths == {"in.csv", "out.json"}

Absent == [exists |-> FALSE, lines |-> <<>>, docs |-> <<>>, truncated |-> FALSE]

TextFile(ls) == [exists |-> TRUE, lines |-> ls, docs |-> <<>>, truncated |-> FALSE]

\* A file just opened with mode 'w': created or cut to length zero.
EmptyFile == TextFile(<<>>)

\* Files an input path may hold: no line at all, or a header and data rows.
InputTexts ==
    {<<>>} \cup
    {<<HeaderLine>> \o r : r \in UNION {[1..n -> RowPool] : n \in 0..MaxRows}}

\* What the other path holds before the run.
OldText == <<HeaderLine, OldLine>>

ArgLists == UNION {[1..n -> Paths] : n \in 0..MaxArgs}

\* Lines printed on standard output.
UsageLine == [kind |-> "usage", rate |-> <<>>, currency |-> <<>>, date |-> <<>>, path |-> ""]
WarningLine(rate, currency, date_str) ==
    [kind |-> "warning", rate |-> rate, currency |-> currency, date |-> date_str, path |-> ""]
SuccessLine(path) ==
    [kind |-> "success", rate |-> <<>>, currency |-> <<>>, date |-> <<>>, path |-> path]
ErrorLine == [kind |-> "error", rate |-> <<>>, currency |-> <<>>, date |-> <<>>, path |-> ""]

\* ------------------------------------------------------------------- state
VARIABLES
    argv,            \* sys.argv
    fs,              \* the file system: path -> file
    padYear,         \* whether the platform's strftime pads %Y
    pc,              \* position in main / convert_csv_to_json
    input_file,      \* parameters of convert_csv_to_json
    output_file,
    csv_file,        \* TRUE while the input handle is open
    json_file,       \* TRUE while the output handle is open
    pos,             \* csv_reader: index of the next line to read
    header,
    exchange_rates,
    json_data,
    stdout,
    result,          \* return value of convert_csv_to_json: "None" until it returns
    exit_status,     \* "unset" unless the program sets one
    calls,           \* history: the calls of convert_csv_to_json
    consumed,        \* history: the rows the for loop has fetched
    raised,          \* history: some step of the try block raised
    io_failed,       \* history: an open, read or write failed
    fs0,             \* history: the file system before the run
    traversed        \* history: the for loop ran to the end of the input

vars == <<argv, fs, padYear, pc, input_file, output_file, csv_file, json_file,
          pos, header, exchange_rates, json_data, stdout, result, exit_status,
          calls, consumed, raised, io_failed, fs0, traversed>>

NoDoc == [exchange_rates |-> <<>>]

Init ==
    /\ argv \in {<<"csvtojson.py">> \o a : a \in ArgLists}
    /\ fs \in {[p \in Paths |-> IF p = "in.csv" THEN a ELSE b] :
                 a \in {Absent} \cup {TextFile(t) : t \in InputTexts},
                 b \in {Absent, TextFile(OldText)}}
    /\ padYear \in BOOLEAN
    /\ pc = "main"
    /\ input_file = ""
    /\ output_file = ""
    /\ csv_file = FALSE
    /\ json_file = FALSE
    /\ pos = 0
    /\ header = <<>>
    /\ exchange_rates = <<>>
    /\ json_data = NoDoc
    /\ stdout = <<>>
    /\ result = "None"
    /\ exit_status = "unset"
    /\ calls = <<>>
    /\ consumed = <<>>
    /\ raised = FALSE
    /\ io_failed = FALSE
    /\ fs0 = fs
    /\ traversed = FALSE

Lines == fs[input_file].lines

\* A main() that only rejects too few arguments.
MainAtLeast ==
    /\ pc = "main"
    /\ IF Len(argv) < ArgvLen
       THEN /\ stdout' = Append(stdout, UsageLine)
            /\ pc' = "exit"
            /\ UNCHANGED <<input_file, output_file, calls, exchange_rates>>
       ELSE /\ input_file' = argv[2]
            /\ output_file' = argv[3]
            /\ calls' = Append(calls, <<argv[2], argv[3]>>)
            /\ exchange_rates' = <<>>
            /\ pc' = "open_in"
            /\ UNCHANGED stdout
    /\ UNCHANGED <<argv, fs, padYear, csv_file, json_file, pos, header,
                   json_data, result, exit_status, consumed, raised,
                   io_failed, fs0, traversed>>

\* ----------------------------------------------------------------- actions
\* main(): the argument check, and the call of convert_csv_to_json, whose
\* first statement empties exchange_rates.
Main ==
    /\ pc = "main"
    /\ IF Len(argv) # ArgvLen
       THEN /\ stdout' = Append(stdout, UsageLine)
            /\ pc' = "exit"
            /\ UNCHANGED <<input_file, output_file, calls, exchange_rates>>
       ELSE /\ input_file' = argv[2]
            /\ output_file' = argv[3]
            /\ calls' = Append(calls, <<argv[2], argv[3]>>)
            /\ exchange_rates' = <<>>
            /\ pc' = "open_in"
            /\ UNCHANGED stdout
    /\ UNCHANGED <<argv, fs, padYear, csv_file, json_file, pos, header,
                   json_data, result, exit_status, consumed, raised,
                   io_failed, fs0, traversed>>

\* A converter that creates the output file as soon as the input opens.
OpenInputBoth ==
    /\ pc = "open_in"
    /\ \E ok \in BOOLEAN :
         IF fs[input_file].exists /\ ok
         THEN /\ csv_file' = TRUE
              /\ fs' = [fs EXCEPT ![output_file] = EmptyFile]
              /\ pos' = 1
              /\ pc' = "header"
              /\ UNCHANGED <<raised, io_failed>>
         ELSE /\ raised' = TRUE
              /\ io_failed' = TRUE
              /\ pc' = "except"
              /\ UNCHANGED <<csv_file, pos, fs>>
    /\ UNCHANGED <<argv, padYear, input_file, output_file, json_file,
                   header, exchange_rates, json_data, stdout, result,
                   exit_status, calls, consumed, fs0, traversed>>

\* with open(input_file, 'r') as csv_file / csv.reader(csv_file)
OpenInput ==
    /\ pc = "open_in"
    /\ \E ok \in BOOLEAN :
         IF fs[input_file].exists /\ ok
         THEN /\ csv_file' = TRUE
              /\ pos' = 1
              /\ pc' = "header"
              /\ UNCHANGED <<raised, io_failed>>
         ELSE /\ raised' = TRUE
              /\ io_failed' = TRUE
              /\ pc' = "except"
              /\ UNCHANGED <<csv_file, pos>>
    /\ UNCHANGED <<argv, fs, padYear, input_file, output_file, json_file,
                   header, exchange_rates, json_data, stdout, result,
                   exit_status, calls, consumed, fs0, traversed>>

\* A header read with a default, next(csv_reader, None), which never raises
\* StopIteration.
ReadHeaderDefault ==
    /\ pc = "header"
    /\ \E ok \in BOOLEAN :
         IF Len(Lines) = 0 /\ ok
         THEN /\ header' = <<>>
              /\ pos' = pos + 1
              /\ pc' = "rows"
              /\ UNCHANGED <<raised, io_failed, csv_file>>
         ELSE IF ~ok
         THEN /\ raised' = TRUE
              /\ io_failed' = (io_failed \/ ~ok)
              /\ csv_file' = FALSE
              /\ pc' = "except"
              /\ UNCHANGED <<header, pos>>
         ELSE /\ header' = CsvRow(Lines[pos])
              /\ pos' = pos + 1
              /\ pc' = "rows"
              /\ UNCHANGED <<raised, io_failed, csv_file>>
    /\ UNCHANGED <<argv, fs, padYear, input_file, output_file, json_file,
                   exchange_rates, json_data, stdout, result, exit_status,
                   calls, consumed, fs0, traversed>>

\* header = next(csv_reader): StopIteration when the file has no line; the
\* read itself may fail.  An exception leaves the with block, closing the file.
ReadHeader ==
    /\ pc = "header"
    /\ \E ok \in BOOLEAN :
         IF Len(Lines) = 0 \/ ~ok
         THEN /\ raised' = TRUE
              /\ io_failed' = (io_failed \/ ~ok)
              /\ csv_file' = FALSE
              /\ pc' = "except"
              /\ UNCHANGED <<header, pos>>
         ELSE /\ header' = CsvRow(Lines[pos])
              /\ pos' = pos + 1
              /\ pc' = "rows"
              /\ UNCHANGED <<raised, io_failed, csv_file>>
    /\ UNCHANGED <<argv, fs, padYear, input_file, output_file, json_file,
                   exchange_rates, json_data, stdout, result, exit_status,
                   calls, consumed, fs0, traversed>>

\* One iteration of "for row in csv_reader": the column check, the unpacking
\* of the row into three names, the two conversions and the append.
ProcessRow ==
    /\ pc = "rows"
    /\ pos <= Len(Lines)
    /\ \E ok \in BOOLEAN :
         IF ~ok
         THEN \* the read fails
              /\ raised' = TRUE
              /\ io_failed' = TRUE
              /\ csv_file' = FALSE
              /\ pc' = "except"
              /\ UNCHANGED <<pos, consumed, exchange_rates, stdout>>
         ELSE LET row == CsvRow(Lines[pos])
              IN  /\ pos' = pos + 1
                  /\ consumed' = Append(consumed, row)
                  /\ IF Len(row) >= MinCols
                     THEN IF Len(row) # 3
                          THEN \* date_str, currency, rate = row : ValueError
                               /\ raised' = TRUE
                               /\ csv_file' = FALSE
                               /\ pc' = "except"
                               /\ UNCHANGED <<io_failed, exchange_rates, stdout>>
                          ELSE LET date_str == row[1]
                                   currency == row[2]
                                   rate     == row[3]
                                   iso_date == ConvertDate(date_str, padYear)
                                   conv     == ConvertRate(rate)
                               IN  /\ stdout' =
                                        IF conv.warn
                                        THEN Append(stdout,
                                                 WarningLine(rate, currency, date_str))
                                        ELSE stdout
                                   /\ exchange_rates' =
                                        Append(exchange_rates,
                                               [date |-> iso_date,
                                                currency |-> currency,
                                                rate |-> conv.rate_float])
                                   /\ UNCHANGED <<raised, io_failed, csv_file, pc>>
                     ELSE UNCHANGED <<raised, io_failed, csv_file, pc,
                                      exchange_rates, stdout>>
    /\ UNCHANGED <<argv, fs, padYear, input_file, output_file, json_file,
                   header, json_data, result, exit_status, calls, fs0, traversed>>

\* A converter that writes the output inside the with block of the input.
EndRowsKeepOpen ==
    /\ pc = "rows"
    /\ pos > Len(Lines)
    /\ json_data' = [exchange_rates |-> exchange_rates]
    /\ traversed' = TRUE
    /\ pc' = "open_out"
    /\ UNCHANGED <<argv, fs, padYear, input_file, output_file, json_file, pos,
                   csv_file,
                   header, exchange_rates, stdout, result, exit_status, calls,
                   consumed, raised, io_failed, fs0>>

\* The reader is exhausted: the with block closes the input file, and
\* json_data is built.
EndRows ==
    /\ pc = "rows"
    /\ pos > Len(Lines)
    /\ csv_file' = FALSE
    /\ json_data' = [exchange_rates |-> exchange_rates]
    /\ traversed' = TRUE
    /\ pc' = "open_out"
    /\ UNCHANGED <<argv, fs, padYear, input_file, output_file, json_file, pos,
                   header, exchange_rates, stdout, result, exit_status, calls,
                   consumed, raised, io_failed, fs0>>

\* An output opened with mode 'a', which keeps what the file holds.
OpenOutputAppend ==
    /\ pc = "open_out"
    /\ \E ok \in BOOLEAN :
         IF ok
         THEN /\ fs' = [fs EXCEPT ![output_file] = IF @.exists THEN @ ELSE EmptyFile]
              /\ json_file' = TRUE
              /\ pc' = "dump"
              /\ UNCHANGED <<raised, io_failed>>
         ELSE /\ raised' = TRUE
              /\ io_failed' = TRUE
              /\ pc' = "except"
              /\ UNCHANGED <<fs, json_file>>
    /\ UNCHANGED <<argv, padYear, input_file, output_file, csv_file, pos,
                   header, exchange_rates, json_data, stdout, result,
                   exit_status, calls, consumed, fs0, traversed>>

\* with open(output_file, 'w') as json_file
OpenOutput ==
    /\ pc = "open_out"
    /\ \E ok \in BOOLEAN :
         IF ok
         THEN /\ fs' = [fs EXCEPT ![output_file] = EmptyFile]
              /\ json_file' = TRUE
              /\ pc' = "dump"
              /\ UNCHANGED <<raised, io_failed>>
         ELSE /\ raised' = TRUE
              /\ io_failed' = TRUE
              /\ pc' = "except"
              /\ UNCHANGED <<fs, json_file>>
    /\ UNCHANGED <<argv, padYear, input_file, output_file, csv_file, pos,
                   header, exchange_rates, json_data, stdout, result,
                   exit_status, calls, consumed, fs0, traversed>>

\* json.dump(json_data, json_file, indent=2) and the end of the with block:
\* the document is appended to what the handle holds, or the write fails and
\* leaves a truncated file; the handle is closed either way.
Dump ==
    /\ pc = "dump"
    /\ \E ok \in BOOLEAN :
         IF ok
         THEN /\ fs' = [fs EXCEPT ![output_file].docs = Append(@, json_data)]
              /\ pc' = "success"
              /\ UNCHANGED <<raised, io_failed>>
         ELSE /\ fs' = [fs EXCEPT ![output_file].truncated = TRUE]
              /\ raised' = TRUE
              /\ io_failed' = TRUE
              /\ pc' = "except"
    /\ json_file' = FALSE
    /\ UNCHANGED <<argv, padYear, input_file, output_file, csv_file, pos,
                   header, exchange_rates, json_data, stdout, result,
                   exit_status, calls, consumed, fs0, traversed>>

\* print("Conversion réussie ...") and, past the try statement, return True
Success ==
    /\ pc = "success"
    /\ stdout' = Append(stdout, SuccessLine(output_file))
    /\ result' = "True"
    /\ pc' = "returned"
    /\ UNCHANGED <<argv, fs, padYear, input_file, output_file, csv_file,
                   json_file, pos, header, exchange_rates, json_data,
                   exit_status, calls, consumed, raised, io_failed, fs0, traversed>>

\* A handler that prints the error line and falls through to return True.
ExceptReturnsTrue ==
    /\ pc = "except"
    /\ stdout' = Append(stdout, ErrorLine)
    /\ result' = "True"
    /\ pc' = "returned"
    /\ UNCHANGED <<argv, fs, padYear, input_file, output_file, csv_file,
                   json_file, pos, header, exchange_rates, json_data,
                   exit_status, calls, consumed, raised, io_failed, fs0, traversed>>

\* except Exception as e: print the error line, return False
Except ==
    /\ pc = "except"
    /\ stdout' = Append(stdout, ErrorLine)
    /\ result' = "False"
    /\ pc' = "returned"
    /\ UNCHANGED <<argv, fs, padYear, input_file, output_file, csv_file,
                   json_file, pos, header, exchange_rates, json_data,
                   exit_status, calls, consumed, raised, io_failed, fs0, traversed>>

\* main() drops the result of the call and returns.
MainReturn ==
    /\ pc = "returned"
    /\ pc' = "exit"
    /\ UNCHANGED <<argv, fs, padYear, input_file, output_file, csv_file,
                   json_file, pos, header, exchange_rates, json_data, stdout,
                   result, exit_status, calls, consumed, raised, io_failed, fs0, traversed>>

Next ==
    \/ Main
    \/ OpenInput
    \/ ReadHeader
    \/ ProcessRow
    \/ EndRows
    \/ OpenOutput
    \/ Dump
    \/ Success
    \/ Except
    \/ MainReturn

Spec == Init /\ [][Next]_vars

TypeOK ==
    /\ pc \in {"main", "open_in", "header", "rows", "open_out", "dump",
               "success", "except", "returned", "exit"}
    /\ result \in {"None", "True", "False"}
    /\ csv_file \in BOOLEAN
    /\ json_file \in BOOLEAN

\* ------------------------------------------------------------- properties
\* convert_csv_to_json has returned.
Returned == result # "None"

\* The lines the input path held when the run started.
InputLines == fs0[input_file].lines

\* The data rows of the input, as csv.reader yields them.
DataRows == [i \in 1..(Len(InputLines) - 1) |-> CsvRow(InputLines[i + 1])]

HasHeader == fs0[input_file].exists /\ Len(InputLines) > 0

WideRow(r) == Len(r) >= MinCols
ThreeFields(r) == Len(r) = 3

PrintedOf(kind) == SelectSeq(stdout, LAMBDA l : l.kind = kind)

BadRate(r) == ~ParseFloat(r[3]).ok

\* The warning lines due for a sequence of three-field rows.
RECURSIVE WarningsFor(_)
WarningsFor(rows) ==
    IF Len(rows) = 0 THEN <<>>
    ELSE (IF BadRate(Head(rows))
          THEN <<WarningLine(Head(rows)[3], Head(rows)[2], Head(rows)[1])>>
          ELSE <<>>) \o WarningsFor(Tail(rows))

\* s is year-month-day text for the date d: digits separated by "-", the
\* month and the day on two digits.
IsYmdOf(s, d) ==
    LET parts == Split(s, "-")
    IN  /\ Len(parts) = 3
        /\ \A i \in 1..3 : AllDigits(parts[i]) /\ Len(parts[i]) > 0
        /\ NumVal(parts[1]) = d.year
        /\ Len(parts[2]) = 2 /\ NumVal(parts[2]) = d.month
        /\ Len(parts[3]) = 2 /\ NumVal(parts[3]) = d.day

\* The entry due for a row of at least three fields.
EntryFor(r) ==
    [date |-> ConvertDate(r[1], padYear),
     currency |-> r[2],
     rate |-> IF BadRate(r) THEN StrRate(r[3]) ELSE NumRate(ParseFloat(r[3]))]

\* C1: a run whose input opened and was read, has a header line, and whose
\* output was writable returns True whatever the data rows hold.
C1_OnlyIoFailuresAbort ==
    (Returned /\ HasHeader /\ ~io_failed) => result = "True"

\* C2: the entries correspond one to one and in order to the rows fetched so
\* far that have at least three fields, rows of more than three included.
C2_EntryPerWideRow ==
    LET wide == SelectSeq(consumed, WideRow)
    IN  /\ Len(exchange_rates) = Len(wide)
        /\ \A i \in 1..Len(wide) : exchange_rates[i].currency = wide[i][2]

\* C3: every entry carries the year-month-day form of its row's first field
\* when that field is a valid month/day/year date and the field itself
\* otherwise, and its row's second field as currency; a date that does not
\* parse costs no row, prints no warning and raises nothing.
C3_DateAndCurrency ==
    LET rows3 == SelectSeq(consumed, ThreeFields)
    IN  /\ Len(exchange_rates) = Len(rows3)
        /\ \A i \in 1..Len(rows3) :
             LET e == exchange_rates[i]
                 r == rows3[i]
                 d == Strptime(r[1])
             IN  /\ e.currency = r[2]
                 /\ IF d.ok THEN IsYmdOf(e.date, d) ELSE e.date = r[1]
        /\ \A i \in 1..Len(stdout) :
             stdout[i].kind = "warning" => ~ParseFloat(stdout[i].rate).ok
        /\ (raised /\ ~io_failed /\ HasHeader)
               => Len(consumed[Len(consumed)]) > 3

\* "3/4/2023" has become "2023-03-04" and "02/29/2023" was kept as it is.
C3_Witness ==
    /\ Len(exchange_rates) = 2
    /\ consumed = <<CsvRow(L2), CsvRow(L4)>>
    /\ exchange_rates[1].date = <<"2","0","2","3","-","0","3","-","0","4">>
    /\ exchange_rates[1].currency = <<"E","U","R">>
    /\ exchange_rates[2].date = <<"0","2","/","2","9","/","2","0","2","3">>
    /\ Len(PrintedOf("warning")) = 1

\* C4: every entry carries the number when its row's third field parses and
\* the field itself otherwise, and the warning lines printed are exactly one
\* per processed row whose rate did not parse, in order, naming its rate,
\* currency and date.
C4_RateAndWarnings ==
    LET rows3 == SelectSeq(consumed, ThreeFields)
    IN  /\ Len(exchange_rates) = Len(rows3)
        /\ \A i \in 1..Len(rows3) :
             LET e == exchange_rates[i]
                 r == rows3[i]
             IN  IF BadRate(r)
                 THEN e.rate.tag = "str" /\ e.rate.str = r[3]
                 ELSE e.rate.tag = "num" /\ e.rate.num = ParseFloat(r[3])
        /\ PrintedOf("warning") = WarningsFor(rows3)

\* "1.5" is stored as the number 1.5, "bad" as the string, with one warning.
C4_Witness ==
    /\ consumed = <<CsvRow(L1), CsvRow(L2)>>
    /\ Len(exchange_rates) = 2
    /\ exchange_rates[1].rate.tag = "num"
    /\ exchange_rates[1].rate.num.whole = 1
    /\ exchange_rates[1].rate.num.frac = <<"5">>
    /\ exchange_rates[2].rate = StrRate(<<"b","a","d">>)
    /\ PrintedOf("warning") =
          <<WarningLine(<<"b","a","d">>, <<"E","U","R">>,
                        <<"3","/","4","/","2","0","2","3">>)>>

\* C5: until the whole input has been traversed the output path is not
\* opened and no file changes; a run that fails before that returns False
\* with a single error line.
C5_NoOutputBeforeWrite ==
    /\ ~traversed => (fs = fs0 /\ ~json_file)
    /\ (Returned /\ ~traversed) =>
          /\ result = "False"
          /\ Len(PrintedOf("error")) = 1
          /\ Len(PrintedOf("success")) = 0

\* A read failed after a row was processed, while the output path held a file.
C5_Witness ==
    /\ result = "False"
    /\ ~traversed
    /\ Len(consumed) >= 1
    /\ io_failed
    /\ input_file # output_file
    /\ fs[output_file] = TextFile(OldText)

\* C6: a call returns True exactly when no step raised, with one success
\* line and no error line, and False exactly when a step raised, with one
\* error line and no success line; no step can leave the call stuck before
\* it returns.
C6_BooleanResult ==
    /\ Returned =>
          /\ (result = "True") = ~raised
          /\ (result = "False") = raised
          /\ Len(PrintedOf("success")) = (IF raised THEN 0 ELSE 1)
          /\ Len(PrintedOf("error")) = (IF raised THEN 1 ELSE 0)
    /\ ~Returned => Len(PrintedOf("success")) + Len(PrintedOf("error")) = 0
    /\ (pc = "exit" /\ Len(calls) > 0) => Returned
    /\ pc # "exit" => ENABLED Next

\* A run in which the write itself failed has returned False.
C6_Witness ==
    /\ result = "False"
    /\ traversed
    /\ fs[output_file].truncated
    /\ Len(exchange_rates) >= 1

\* C7: with any number of arguments other than two main prints the usage
\* line, calls nothing and touches no file; with two it calls
\* convert_csv_to_json once with them in order; no exit status is ever set.
C7_MainArguments ==
    /\ Len(argv) # ArgvLen =>
          /\ calls = <<>>
          /\ fs = fs0
          /\ ~csv_file /\ ~json_file
          /\ pc \in {"main", "exit"}
          /\ pc = "exit" => stdout = <<UsageLine>>
    /\ Len(argv) = ArgvLen =>
          /\ Len(PrintedOf("usage")) = 0
          /\ pc # "main" =>
                /\ calls = <<<<argv[2], argv[3]>>>>
                /\ input_file = argv[2]
                /\ output_file = argv[3]
    /\ exit_status = "unset"

\* main has ended after a failed conversion of its two arguments.
C7_Witness ==
    /\ pc = "exit"
    /\ Len(argv) = ArgvLen
    /\ argv[2] # argv[3]
    /\ calls = <<<<argv[2], argv[3]>>>>
    /\ result = "False"

\* C8: no handle is open once the call has failed or returned, the two
\* handles are never open together, and the output handle is open only
\* after the whole input was traversed.
C8_ScopedHandles ==
    /\ pc \in {"except", "returned", "exit"} => (~csv_file /\ ~json_file)
    /\ ~(csv_file /\ json_file)
    /\ json_file => (traversed /\ pos > Len(InputLines))

\* The write failed after both handles had been used.
C8_Witness ==
    /\ pc = "except"
    /\ fs[output_file].truncated
    /\ Len(consumed) >= 1

\* C9: an input that opens but holds no line makes the call fail at the
\* header: one error line, False, and the output path is never touched.
C9_EmptyInputFails ==
    (Len(calls) > 0 /\ fs0[input_file].exists /\ Len(InputLines) = 0) =>
        /\ fs = fs0
        /\ ~json_file
        /\ ~traversed
        /\ exchange_rates = <<>>
        /\ Returned =>
              /\ result = "False"
              /\ stdout = <<ErrorLine>>

\* The header read of an empty file has raised without any I/O failure.
C9_Witness ==
    /\ result = "False"
    /\ fs0[input_file].exists
    /\ Len(InputLines) = 0
    /\ ~io_failed
    /\ fs0[output_file].exists

\* C10: after a successful run the output path holds exactly the document
\* of this run's input and nothing of what it held before, other paths are
\* as they were, and an input whose data rows all have fewer than three
\* fields succeeds with an empty sequence and no warning.
C10_OutputReplaced ==
    LET short == \A i \in 1..Len(DataRows) : ~WideRow(DataRows[i])
    IN  /\ result = "True" =>
              /\ fs[output_file] =
                    [exists |-> TRUE, lines |-> <<>>, truncated |-> FALSE,
                     docs |-> <<[exchange_rates |->
                                   [i \in 1..Len(SelectSeq(DataRows, WideRow)) |->
                                      EntryFor(SelectSeq(DataRows, WideRow)[i])]]>>]
              /\ \A p \in Paths \ {output_file} : fs[p] = fs0[p]
              /\ short =>
                    /\ fs[output_file].docs = <<NoDoc>>
                    /\ Len(PrintedOf("warning")) = 0
        /\ (Returned /\ HasHeader /\ ~io_failed /\ short) => result = "True"

\* A header followed by a short row was converted over an existing file.
C10_Witness ==
    /\ result = "True"
    /\ fs0[output_file] = TextFile(OldText)
    /\ InputLines = <<HeaderLine, L5>>
    /\ fs[output_file].docs = <<NoDoc>>
    /\ fs[output_file].lines = <<>>

====
